---- MODULE Spec2Model ----
(***************************************************************************)
(* Model of split_csv (src/splitcsv.py): a CSV file is cut into splitnum    *)
(* parts of int(file_length / splitnum) rows each, every part starting     *)
(* with the header row.  One behaviour is one call of split_csv; the        *)
(* arguments and the file system are chosen in Init.                        *)
(*                                                                         *)
(* Text is modelled one level above bytes: a line is a sequence of raw     *)
(* fields (value, was-it-quoted) and a line terminator.  csv.reader turns   *)
(* a line into a row (a sequence of values), csv.writer turns a row into a *)
(* line.  The source exists, the output directory exists and holds no path *)
(* equal to the source's (lines 53 and 57 pass), names are strings (lines  *)
(* 62-64 pass).                                                            *)
(***************************************************************************)
EXTENDS Integers, Sequences, FiniteSets, Bags, TLC

\* ------------------------------------------------------------------ bounds
MaxRows == 5          \* longest source, in lines after the first
MaxShuffleRows == 4   \* longest source that is split with shuffle=True
MaxSplit == 3         \* largest splitnum argument
MaxNames == 3         \* longest rename list

\* ------------------------------------------------------------- text model
RawField(v, q) == [val |-> v, quoted |-> q]

Line(fs, e) == [f |-> fs, eol |-> e]

\* values a csv.writer cannot write bare (they hold the delimiter)
SpecialVals == {"p,q"}

\* csv.reader: one row per line, quotes removed; a blank line is the row []
ParseLine(line) == [i \in 1..Len(line.f) |-> line.f[i].val]

\* csv.writer, dialect excel: QUOTE_MINIMAL, lineterminator \r\n; the row
\* holding one empty string is written as ""
FormatRow(row) ==
    Line([i \in 1..Len(row) |->
             RawField(row[i], row[i] \in SpecialVals \/ row = <<"">>)],
         "\r\n")

\* csv.DictReader(fieldnames=headers) then csv.DictWriter(fieldnames=headers):
\* a row longer than the header gets the key None (restkey), a shorter one is
\* padded with None (restval), a repeated header name keeps its last value.
IsWide(headers, row) == Len(row) > Len(headers)

LastKey(headers, i) ==
    CHOOSE j \in 1..Len(headers) :
        /\ headers[j] = headers[i]
        /\ \A m \in (j + 1)..Len(headers) : headers[m] # headers[i]

DictRow(headers, row) ==
    [i \in 1..Len(headers) |->
        IF LastKey(headers, i) <= Len(row) THEN row[LastKey(headers, i)] ELSE ""]

\* -------------------------------------------------------------- file names
Reserved == {"\\", "/", ":", "*", "?", "\"", "<", ">", "|"}

NullName == <<"n", "u", "l", "l">>

\* line 66 without its second disjunct
BadNameForgetsNull(name) == \E i \in 1..Len(name) : name[i] \in Reserved

\* line 66: set(name).intersection(set(r'\/:*?"<>|')) or name == 'null'
BadName(name) ==
    \/ \E i \in 1..Len(name) : name[i] \in Reserved
    \/ name = NullName

Stem == "s"

Suffix == ".csv"

\* line 60: f"{csvfile.stem}{num}" for num in range(1, splitnum + 1)
GeneratedNames(n) == [i \in 1..n |-> <<Stem, ToString(i)>>]

\* line 68 left out
RenamedSplitnumKept(names, n) == n

\* line 68: the rename list dictates the number of splits
RenamedSplitnum(names, n) == Len(names)

\* line 70 with the bound 1
SplitnumOkFromOne(n) == n >= 1

\* line 70
SplitnumOk(n) == n >= 2

\* line 79 rounding up
RowSplitRoundedUp(length, n) == (length + n - 1) \div n

\* line 79: int(file_length / splitnum)
RowSplit(length, n) == length \div n

\* line 81 with >=
SplitOkNonNegative(q) == q >= 0

\* line 81
SplitOk(q) == q > 0

\* line 105 one row late
QuotaReachedLate(q, n) == q + 1 = n

\* line 105
QuotaReached(q, n) == q = n

\* line 95: Path(outdir).joinpath(f"{prefix}{filename}{csvfile.suffix}")
Filepath(prefix, filename) == <<prefix>> \o filename \o <<Suffix>>

\* ------------------------------------------------------------------ inputs
SeqUpTo(S, n) == UNION {[1..m -> S] : m \in 0..n}

Plain(vals) == Line([i \in 1..Len(vals) |-> RawField(vals[i], FALSE)], "\n")

RowXY == Plain(<<"x", "y">>)

RowYX == Plain(<<"y", "x">>)

ShortRow == Plain(<<"x">>)

WideRow == Plain(<<"x", "y", "x">>)

BlankLine == Plain(<<>>)

PlainHeader == Plain(<<"h", "k">>)

HeaderSet ==
    { PlainHeader,
      Line(<<RawField("h", TRUE), RawField("k", FALSE)>>, "\r\n"),
      Line(<<RawField("p,q", TRUE), RawField("k", FALSE)>>, "\r\n"),
      Plain(<<"h", "h">>),
      BlankLine }

GoodNames == { <<"a">>, <<"b">>, <<"n", "u", "l", "l", "s">> }

BadNames == { <<"t", c>> : c \in Reserved } \cup { NullName }

\* rename lists: valid names, with at most one of them replaced by a bad name
RenameLists ==
    LET good == SeqUpTo(GoodNames, MaxNames)
    IN  good \cup UNION { { [l EXCEPT ![i] = b] : i \in 1..Len(l), b \in BadNames } :
                           l \in good }

None == <<>>

Some(x) == <<x>>

Args(n, r, p, s) == [splitnum |-> n, rename |-> r, prefix |-> p, shuffle |-> s]

\* the output directory before the call: one file that a part named a replaces
InitialFs == (Filepath("", <<"a">>) :> <<Plain(<<"old">>)>>)

\* ------------------------------------------------------------------- state
VARIABLES
    args,         \* the arguments of the call (never assigned)
    csvfile,      \* the lines of the source file (never assigned)
    fs,           \* the output directory: path -> lines of the file
    pc,           \* the statement split_csv is at
    err,          \* the exception that ended the call, "" if none
    rename,       \* local rename: the names of the parts
    splitnum,     \* local splitnum
    given_csv,    \* handle of the source: "unopened", "open", "closed"
    headers,      \* the header row read at line 75
    file_length,  \* line 77
    row_split,    \* line 79
    csv_row,      \* the row iterator: source line numbers still to be yielded
    file_num,     \* how many names the loop of line 93 has taken
    new_file,     \* handle of the part being written: <<path>>, <<>> if none
    row_num,      \* line 103
    written       \* history: per part opened, its path and the source lines written

vars == <<args, csvfile, fs, pc, err, rename, splitnum, given_csv, headers,
          file_length, row_split, csv_row, file_num, new_file, row_num, written>>

Locals ==
    /\ fs = InitialFs
    /\ pc = "validate"
    /\ err = ""
    /\ rename = <<>>
    /\ splitnum = args.splitnum
    /\ given_csv = "unopened"
    /\ headers = <<>>
    /\ file_length = 0
    /\ row_split = 0
    /\ csv_row = <<>>
    /\ file_num = 0
    /\ new_file = <<>>
    /\ row_num = 0
    /\ written = <<>>

\* sources of every shape, split in order under generated names
InitRows ==
    /\ csvfile \in { <<PlainHeader>> \o d :
                       d \in SeqUpTo({RowXY, ShortRow, WideRow, BlankLine}, MaxRows) }
    /\ args \in { Args(n, None, "", FALSE) : n \in 2..MaxSplit }

\* shuffled splits
InitShuffle ==
    /\ csvfile \in { <<PlainHeader>> \o d :
                       d \in SeqUpTo({RowXY, RowYX}, MaxShuffleRows) }
    /\ args \in { Args(n, None, "", TRUE) : n \in 2..MaxSplit }

\* every kind of first line, and the empty file
InitHeaders ==
    /\ csvfile \in {<<>>} \cup { <<h>> \o d : h \in HeaderSet,
                                  d \in SeqUpTo({RowXY, RowYX, ShortRow}, MaxSplit) }
    /\ args \in { Args(n, None, "", FALSE) : n \in 2..MaxSplit }

\* every kind of splitnum and rename list, on a source long enough for each
InitNames ==
    /\ csvfile = <<PlainHeader>> \o
                 [i \in 1..(MaxNames + 1) |-> IF i % 2 = 1 THEN RowXY ELSE RowYX]
    /\ args \in { Args(n, r, p, FALSE) :
                    n \in (-1)..MaxSplit,
                    r \in {None} \cup { Some(l) : l \in RenameLists },
                    p \in {"", "p_"} }

Init ==
    /\ \/ InitRows
       \/ InitShuffle
       \/ InitHeaders
       \/ InitNames
    /\ Locals

\* ----------------------------------------------------------------- helpers
\* an exception with the part opened outside a with-block
RaiseLeaksOutput(e) ==
    /\ pc' = "raised"
    /\ err' = e
    /\ given_csv' = IF given_csv = "open" THEN "closed" ELSE given_csv
    /\ new_file' = new_file

\* an exception leaves the function: both with-blocks release their handle
Raise(e) ==
    /\ pc' = "raised"
    /\ err' = e
    /\ given_csv' = IF given_csv = "open" THEN "closed" ELSE given_csv
    /\ new_file' = <<>>

NonBlank(lo) == { i \in lo..Len(csvfile) : ParseLine(csvfile[i]) # <<>> }

\* the line numbers of S in file order
Ascending(S) ==
    [i \in 1..Cardinality(S) |-> CHOOSE x \in S : Cardinality({y \in S : y < x}) = i - 1]

\* drawing with replacement
PermsWithRepeats(n) == [1..n -> 1..n]

\* random.shuffle: the orders a list of n rows can be left in
Perms(n) == { p \in [1..n -> 1..n] : \A i, j \in 1..n : p[i] = p[j] => i = j }

\* ----------------------------------------------------------------- actions
\* lines 59-68
Validate ==
    /\ pc = "validate"
    /\ IF args.rename = None
       THEN /\ rename' = GeneratedNames(splitnum)
            /\ pc' = "check_splitnum"
            /\ UNCHANGED <<splitnum, err>>
       ELSE IF \E i \in 1..Len(args.rename[1]) : BadName(args.rename[1][i])
            THEN /\ pc' = "raised"
                 /\ err' = "AssertionError"
                 /\ UNCHANGED <<rename, splitnum>>
            ELSE /\ rename' = args.rename[1]
                 /\ splitnum' = RenamedSplitnum(args.rename[1], splitnum)
                 /\ pc' = "check_splitnum"
                 /\ UNCHANGED err
    /\ UNCHANGED <<args, csvfile, fs, given_csv, headers, file_length, row_split,
                   csv_row, file_num, new_file, row_num, written>>

\* line 70
CheckSplitnum ==
    /\ pc = "check_splitnum"
    /\ IF SplitnumOk(splitnum)
       THEN pc' = "open_source" /\ UNCHANGED err
       ELSE pc' = "raised" /\ err' = "AssertionError"
    /\ UNCHANGED <<args, csvfile, fs, rename, splitnum, given_csv, headers,
                   file_length, row_split, csv_row, file_num, new_file, row_num,
                   written>>

\* line 73
OpenSource ==
    /\ pc = "open_source"
    /\ given_csv' = "open"
    /\ pc' = "read_headers"
    /\ UNCHANGED <<args, csvfile, fs, err, rename, splitnum, headers, file_length,
                   row_split, csv_row, file_num, new_file, row_num, written>>

\* line 75: next() of a reader at the end of the file raises StopIteration
ReadHeaders ==
    /\ pc = "read_headers"
    /\ IF csvfile = <<>>
       THEN Raise("StopIteration") /\ UNCHANGED headers
       ELSE /\ headers' = ParseLine(csvfile[1])
            /\ pc' = "count_rows"
            /\ UNCHANGED <<err, given_csv, new_file>>
    /\ UNCHANGED <<args, csvfile, fs, rename, splitnum, file_length, row_split,
                   csv_row, file_num, row_num, written>>

\* lines 77-81
CountRows ==
    /\ pc = "count_rows"
    /\ file_length' = Cardinality(NonBlank(2))
    /\ row_split' = RowSplit(file_length', splitnum)
    /\ IF SplitOk(row_split')
       THEN pc' = "rewind" /\ UNCHANGED <<err, given_csv, new_file>>
       ELSE Raise("AssertionError")
    /\ UNCHANGED <<args, csvfile, fs, rename, splitnum, headers, csv_row, file_num,
                   row_num, written>>

\* lines 84-86 without line 87
RewindKeepsFirstRow ==
    /\ pc = "rewind"
    /\ csv_row' = Ascending(NonBlank(1))
    /\ pc' = IF args.shuffle THEN "shuffle" ELSE "next_file"
    /\ UNCHANGED <<args, csvfile, fs, err, rename, splitnum, given_csv, headers,
                   file_length, row_split, file_num, new_file, row_num, written>>

\* lines 84-87: the DictReader skips blank rows, and its first row is dropped
Rewind ==
    /\ pc = "rewind"
    /\ csv_row' = Tail(Ascending(NonBlank(1)))
    /\ pc' = IF args.shuffle THEN "shuffle" ELSE "next_file"
    /\ UNCHANGED <<args, csvfile, fs, err, rename, splitnum, given_csv, headers,
                   file_length, row_split, file_num, new_file, row_num, written>>

\* lines 89-90, 13-17
Shuffle ==
    /\ pc = "shuffle"
    /\ \E p \in Perms(Len(csv_row)) :
          csv_row' = [i \in 1..Len(csv_row) |-> csv_row[p[i]]]
    /\ pc' = "next_file"
    /\ UNCHANGED <<args, csvfile, fs, err, rename, splitnum, given_csv, headers,
                   file_length, row_split, file_num, new_file, row_num, written>>

\* lines 93-98: the next name, its path, open('w') creates or truncates
OpenOutput ==
    /\ pc = "next_file"
    /\ file_num < Len(rename)
    /\ file_num' = file_num + 1
    /\ LET filepath == Filepath(args.prefix, rename[file_num'])
       IN  /\ fs' = (filepath :> <<>>) @@ fs
           /\ new_file' = <<filepath>>
           /\ written' = Append(written, [path |-> filepath, rows |-> <<>>])
    /\ pc' = "write_header"
    /\ UNCHANGED <<args, csvfile, err, rename, splitnum, given_csv, headers,
                   file_length, row_split, csv_row, row_num>>

\* the header written to the first part only
WriteHeaderFirstPartOnly ==
    /\ pc = "write_header"
    /\ fs' = [fs EXCEPT ![new_file[1]] =
                 IF file_num = 1 THEN Append(@, FormatRow(headers)) ELSE @]
    /\ row_num' = 0
    /\ pc' = "write_rows"
    /\ UNCHANGED <<args, csvfile, err, rename, splitnum, given_csv, headers,
                   file_length, row_split, csv_row, file_num, new_file, written>>

\* lines 99-100
WriteHeader ==
    /\ pc = "write_header"
    /\ fs' = [fs EXCEPT ![new_file[1]] = Append(@, FormatRow(headers))]
    /\ row_num' = 0
    /\ pc' = "write_rows"
    /\ UNCHANGED <<args, csvfile, err, rename, splitnum, given_csv, headers,
                   file_length, row_split, csv_row, file_num, new_file, written>>

\* lines 103-106: one turn of the inner loop
WriteRow ==
    /\ pc = "write_rows"
    /\ IF csv_row = <<>>
       THEN /\ pc' = "close_file"
            /\ UNCHANGED <<fs, err, given_csv, csv_row, new_file, row_num, written>>
       ELSE LET row == ParseLine(csvfile[Head(csv_row)])
            IN  /\ csv_row' = Tail(csv_row)
                /\ row_num' = row_num + 1
                /\ IF IsWide(headers, row)
                   THEN Raise("ValueError") /\ UNCHANGED <<fs, written>>
                   ELSE /\ fs' = [fs EXCEPT ![new_file[1]] =
                                     Append(@, FormatRow(DictRow(headers, row)))]
                        /\ written' = [written EXCEPT ![Len(written)].rows =
                                          Append(@, Head(csv_row))]
                        /\ pc' = IF QuotaReached(row_split, row_num') THEN "close_file"
                                 ELSE "write_rows"
                        /\ UNCHANGED <<err, given_csv, new_file>>
    /\ UNCHANGED <<args, csvfile, rename, splitnum, headers, file_length, row_split,
                   file_num>>

\* the end of the with-block of line 98
CloseOutput ==
    /\ pc = "close_file"
    /\ new_file' = <<>>
    /\ pc' = "next_file"
    /\ UNCHANGED <<args, csvfile, fs, err, rename, splitnum, given_csv, headers,
                   file_length, row_split, csv_row, file_num, row_num, written>>

\* the loop of line 93 is over: the end of the with-block of line 73
CloseSource ==
    /\ pc = "next_file"
    /\ file_num = Len(rename)
    /\ given_csv' = "closed"
    /\ pc' = "done"
    /\ UNCHANGED <<args, csvfile, fs, err, rename, splitnum, headers, file_length,
                   row_split, csv_row, file_num, new_file, row_num, written>>

Next ==
    \/ Validate
    \/ CheckSplitnum
    \/ OpenSource
    \/ ReadHeaders
    \/ CountRows
    \/ Rewind
    \/ Shuffle
    \/ OpenOutput
    \/ WriteHeader
    \/ WriteRow
    \/ CloseOutput
    \/ CloseSource

Spec == Init /\ [][Next]_vars

\* ------------------------------------------------ vocabulary of the claims
\* the data rows of the source: the non-empty lines after the first
DataLines == { i \in 2..Len(csvfile) : csvfile[i].f # <<>> }

TotalRows == Cardinality(DataLines)

\* the data rows in source order
DataSeq == Ascending(DataLines)

\* the number of outputs asked for
NumOutputs == IF args.rename = None THEN args.splitnum ELSE Len(args.rename[1])

Quota == TotalRows \div NumOutputs

FieldValues(line) == [i \in 1..Len(line.f) |-> line.f[i].val]

\* no data row has more fields than the first line
Rectangular == \A i \in DataLines : Len(csvfile[i].f) <= Len(csvfile[1].f)

\* every data row has as many fields as the first line, whose names differ
Regular ==
    /\ \A i \in DataLines : Len(csvfile[i].f) = Len(csvfile[1].f)
    /\ \A i, j \in 1..Len(csvfile[1].f) :
          csvfile[1].f[i].val = csvfile[1].f[j].val => i = j

SpecReserved == {"\\", "/", ":", "*", "?", "\"", "<", ">", "|"}

SpecBadName(name) ==
    \/ \E i \in 1..Len(name) : name[i] \in SpecReserved
    \/ name = <<"n", "u", "l", "l">>

HasBadName == args.rename # None /\ \E i \in 1..Len(args.rename[1]) : SpecBadName(args.rename[1][i])

\* the data rows of the file at path
DataRowsIn(path) == Len(fs[path]) - 1

RECURSIVE WrittenUpTo(_)
WrittenUpTo(k) == IF k = 0 THEN <<>> ELSE WrittenUpTo(k - 1) \o written[k].rows

\* the source lines written so far, in the order of writing
AllWritten == WrittenUpTo(Len(written))

\* part k's path is not opened again by a later part
LastUse(k) == \A j \in (k + 1)..Len(written) : written[j].path # written[k].path

BagOf(seq) ==
    [v \in {seq[i] : i \in 1..Len(seq)} |-> Cardinality({i \in 1..Len(seq) : seq[i] = v})]

\* the rows read back from part k, its first line left out
FileRows(k) ==
    LET lines == fs[written[k].path]
    IN  [j \in 1..(Len(lines) - 1) |-> FieldValues(lines[j + 1])]

RECURSIVE RowsUpTo(_)
RowsUpTo(k) == IF k = 0 THEN <<>> ELSE RowsUpTo(k - 1) \o FileRows(k)

RowsWrittenBag == BagOf(RowsUpTo(Len(written)))

SourceRowsBag == BagOf([i \in 1..Len(DataSeq) |-> FieldValues(csvfile[DataSeq[i]])])

\* the call is over, or it can take its next step
Running == pc \notin {"done", "raised"} => ENABLED Next

\* ------------------------------------------------------------------ claims
\* C1: after a successful call with T data rows and N >= 2 outputs, T >= N, each
\* of the N outputs holds exactly floor(T/N) data rows, N * floor(T/N) in all.
QuotaSplitCounts ==
    pc = "done" =>
        /\ NumOutputs >= 2
        /\ TotalRows >= NumOutputs
        /\ Len(written) = NumOutputs
        /\ \A k \in 1..Len(written) :
              /\ Len(written[k].rows) = Quota
              /\ DataRowsIn(written[k].path) = Quota
        /\ Len(AllWritten) = NumOutputs * Quota

QuotaSplitCountsWitness ==
    /\ pc = "done"
    /\ NumOutputs = 3
    /\ TotalRows = 5

\* C2: with N >= 2 outputs and a source of T data rows under a first line, T < N
\* ends the call with an AssertionError before any output exists or is touched;
\* N = T passes, and on a source with no row wider than its first line the call
\* completes with exactly 1 data row in every output.
TooManySplits ==
    (NumOutputs >= 2 /\ ~HasBadName /\ csvfile # <<>>) =>
        /\ TotalRows < NumOutputs =>
              /\ fs = InitialFs
              /\ written = <<>>
              /\ new_file = <<>>
              /\ pc \in {"validate", "check_splitnum", "open_source", "read_headers",
                         "count_rows", "raised"}
              /\ pc = "raised" => err = "AssertionError"
              /\ Running
        /\ TotalRows = NumOutputs =>
              /\ err # "AssertionError"
              /\ Running
              /\ Rectangular => pc # "raised"
              /\ pc = "done" =>
                    /\ Len(written) = NumOutputs
                    /\ \A k \in 1..Len(written) : DataRowsIn(written[k].path) = 1

TooManySplitsWitness ==
    /\ pc = "raised"
    /\ err = "AssertionError"
    /\ NumOutputs >= 2
    /\ TotalRows = NumOutputs - 1
    /\ TotalRows >= 1
    /\ given_csv = "closed"

\* C3: a call whose number of outputs is below 2 (splitnum < 2 without names, or
\* a list of 0 or 1 names) fails with the source never opened and no output made.
MinimumSplitCount ==
    NumOutputs < 2 =>
        /\ pc \in {"validate", "check_splitnum", "raised"}
        /\ pc = "raised" => err = "AssertionError"
        /\ Running
        /\ given_csv = "unopened"
        /\ fs = InitialFs
        /\ written = <<>>

MinimumSplitCountWitness ==
    /\ pc = "raised"
    /\ args.rename # None
    /\ Len(args.rename[1]) = 1
    /\ ~HasBadName

\* C4: a rename list holding a name with a reserved character, or the name null,
\* at any position, fails with an AssertionError and no file was ever opened.
FilenameValidation ==
    HasBadName =>
        /\ pc \in {"validate", "raised"}
        /\ pc = "raised" => err = "AssertionError"
        /\ Running
        /\ given_csv = "unopened"
        /\ new_file = <<>>
        /\ fs = InitialFs
        /\ written = <<>>

FilenameValidationWitness ==
    /\ pc = "raised"
    /\ args.rename # None
    /\ Len(args.rename[1]) >= 3
    /\ args.rename[1][2] = <<"n", "u", "l", "l">>
    /\ ~SpecBadName(args.rename[1][1])
    /\ ~SpecBadName(args.rename[1][3])

\* C5: with a rename list of k names, the quota is floor(T/k) and a successful
\* call opens exactly k outputs, the i-th under the i-th name, whatever splitnum
\* was passed.
RenameDictatesSplitnum ==
    args.rename # None =>
        /\ pc \in {"rewind", "shuffle", "next_file", "write_header", "write_rows",
                   "close_file", "done"} => row_split = TotalRows \div Len(args.rename[1])
        /\ pc = "done" =>
              /\ Len(written) = Len(args.rename[1])
              /\ \A i \in 1..Len(written) :
                    /\ written[i].path = Filepath(args.prefix, args.rename[1][i])
                    /\ written[i].path \in DOMAIN fs

RenameDictatesSplitnumWitness ==
    /\ pc = "done"
    /\ args.rename # None
    /\ Len(args.rename[1]) = 2
    /\ args.splitnum = 3
    /\ row_split = 2

\* a row as it reaches a part whose header names differ: cut to no more fields
\* than the header has, short rows filled up with empty fields
Padded(row, width) == [i \in 1..width |-> IF i <= Len(row) THEN row[i] ELSE ""]

DistinctHeaderNames ==
    \A i, j \in 1..Len(csvfile[1].f) : csvfile[1].f[i].val = csvfile[1].f[j].val => i = j

\* part k holds, under its first line, the source rows recorded for it
HoldsItsRows(k) ==
    LET lines == fs[written[k].path]
    IN  /\ Len(lines) = 1 + Len(written[k].rows)
        /\ DistinctHeaderNames =>
              \A j \in 1..Len(written[k].rows) :
                 FieldValues(lines[j + 1]) =
                    Padded(FieldValues(csvfile[written[k].rows[j]]), Len(csvfile[1].f))

\* C6 as stated: the first line of every output is the text of the source's
\* first line, verbatim.
HeaderVerbatim ==
    \A k \in 1..Len(written) :
        LET p == written[k].path
        IN  /\ fs[p] = <<>> => (pc = "write_header" /\ new_file = <<p>>)
            /\ fs[p] # <<>> => fs[p][1].f = csvfile[1].f

\* C6, amended: every output that is opened receives, before any data row, a
\* first line with the fields of the source's first line, the same values in the
\* same order (the text is the writer's: quotes the values do not need are
\* gone); the data rows come after it and the first line is never a data row.
HeaderPropagation ==
    \A k \in 1..Len(written) :
        LET p == written[k].path
        IN  /\ p \in DOMAIN fs
            /\ fs[p] = <<>> => (pc = "write_header" /\ new_file = <<p>>)
            /\ fs[p] # <<>> => FieldValues(fs[p][1]) = FieldValues(csvfile[1])
            /\ (LastUse(k) /\ fs[p] # <<>>) => Len(fs[p]) = 1 + Len(written[k].rows)
            /\ fs[p] = <<>> => written[Len(written)].rows = <<>>

HeaderPropagationWitness ==
    /\ pc = "done"
    /\ csvfile[1].f[1] = RawField("h", TRUE)
    /\ Len(written) = 3

\* C7 as stated: with shuffle, the multiset of the data rows in the outputs of a
\* successful call is the multiset of the source's data rows (here only for
\* sources all of whose rows have the header's width).
ShuffleKeepsEveryRow ==
    (pc = "done" /\ args.shuffle /\ Regular) => RowsWrittenBag = SourceRowsBag

\* C7, amended: with shuffle, every row written comes from a source data row
\* and no source row is written twice; a successful call writes N * floor(T/N)
\* of the T rows, each cut or filled up to the header's width.  On a source all
\* of whose rows have the header's width the rows in the outputs are a
\* sub-multiset of the source rows, the whole of it exactly when N divides T.
ShuffleWritesDistinctRows ==
    args.shuffle =>
        /\ \A i \in 1..Len(AllWritten) : AllWritten[i] \in DataLines
        /\ \A i, j \in 1..Len(AllWritten) : AllWritten[i] = AllWritten[j] => i = j
        /\ pc = "done" =>
              /\ Len(AllWritten) = NumOutputs * Quota
              /\ \A k \in 1..Len(written) : HoldsItsRows(k)
              /\ Regular =>
                    /\ RowsWrittenBag \sqsubseteq SourceRowsBag
                    /\ (RowsWrittenBag = SourceRowsBag) <=> (TotalRows % NumOutputs = 0)

ShuffleWritesDistinctRowsWitness ==
    /\ pc = "done"
    /\ args.shuffle
    /\ Regular
    /\ TotalRows % NumOutputs # 0
    /\ Len(AllWritten) >= 2
    /\ AllWritten[1] > AllWritten[2]

\* C8 as stated: row i goes to output i mod N, every one of the T rows is
\* written and two outputs differ by at most 1 row.
RoundRobinNoLoss ==
    pc = "done" =>
        /\ Len(AllWritten) = TotalRows
        /\ \A k, j \in 1..Len(written) :
              Len(written[k].rows) - Len(written[j].rows) <= 1

\* C8, amended: there is no round-robin mode; every successful call writes
\* T - (T mod N) rows, the same number to every output, and loses T mod N rows,
\* none exactly when N divides T.
QuotaIsTheOnlyPolicy ==
    pc = "done" =>
        /\ Len(AllWritten) = TotalRows - (TotalRows % NumOutputs)
        /\ \A k, j \in 1..Len(written) : Len(written[k].rows) = Len(written[j].rows)
        /\ Cardinality(DataLines \ {AllWritten[i] : i \in 1..Len(AllWritten)})
              = TotalRows % NumOutputs
        /\ (Len(AllWritten) = TotalRows) <=> (TotalRows % NumOutputs = 0)

QuotaIsTheOnlyPolicyWitness ==
    /\ pc = "done"
    /\ NumOutputs = 2
    /\ TotalRows = 3
    /\ Len(AllWritten) = 2

\* C9: when the call is over, normally or by an exception, no handle is open and
\* nothing more happens; a failed write on output k is raised to the caller with
\* the outputs before k complete and no output after k ever opened.
GuaranteedRelease ==
    /\ new_file # <<>> => given_csv = "open"
    /\ pc \in {"done", "raised"} =>
          /\ given_csv # "open"
          /\ new_file = <<>>
          /\ ~ENABLED Next
    /\ Running
    /\ pc = "done" => (err = "" /\ given_csv = "closed")
    /\ pc = "raised" => err \in {"AssertionError", "StopIteration", "ValueError"}
    /\ (pc = "raised" /\ given_csv = "unopened") => written = <<>>
    /\ (pc = "raised" /\ written # <<>>) =>
          /\ err = "ValueError"
          /\ given_csv = "closed"
          /\ Len(written) <= NumOutputs
          /\ \A j \in 1..(Len(written) - 1) :
                /\ Len(written[j].rows) = row_split
                /\ LastUse(j) => HoldsItsRows(j)

GuaranteedReleaseWitness ==
    /\ pc = "raised"
    /\ err = "ValueError"
    /\ Len(written) = 2
    /\ NumOutputs = 3
    /\ Len(written[2].rows) = 0

IsPrefix(s, t) == Len(s) <= Len(t) /\ \A i \in 1..Len(s) : s[i] = t[i]

\* C10: without shuffle the rows are written in source order, each at most once:
\* output k gets the source data rows (k-1)*q+1 .. k*q, q = floor(T/N), is
\* complete before output k+1 is opened, and the rows never written are the last
\* T mod N of the source.
SequentialBlocks ==
    ~args.shuffle =>
        /\ IsPrefix(AllWritten, DataSeq)
        /\ \A k \in 1..(Len(written) - 1) : Len(written[k].rows) = Quota
        /\ new_file # <<>> => new_file[1] = written[Len(written)].path
        /\ pc = "next_file" => new_file = <<>>
        /\ pc \in {"next_file", "done"} =>
              \A k \in 1..Len(written) : LastUse(k) => HoldsItsRows(k)
        /\ pc = "done" =>
              /\ Len(written) = NumOutputs
              /\ \A k \in 1..NumOutputs :
                    written[k].rows = SubSeq(DataSeq, (k - 1) * Quota + 1, k * Quota)
              /\ DataLines \ {AllWritten[i] : i \in 1..Len(AllWritten)}
                    = {DataSeq[i] : i \in (NumOutputs * Quota + 1)..TotalRows}

SequentialBlocksWitness ==
    /\ pc = "done"
    /\ ~args.shuffle
    /\ Quota = 2
    /\ TotalRows = 5
    /\ \E i \in DataLines : Len(csvfile[i].f) = 1

====
